---- MODULE Spec2Model ----
(***************************************************************************)
(* TheSolanaApi: the validator registry (construction, indices, selection) *)
(* and the HTTP routes that forward a JSON-RPC request to a selected node. *)
(*                                                                         *)
(* A Rust String is a sequence of characters, each character a one-letter  *)
(* TLA+ string: "frankfurt" would be <<"f","r","a",...>>.  A Rust usize    *)
(* position is kept 0-based, so validators[idx] is validators[idx + 1].    *)
(***************************************************************************)
EXTENDS Integers, Sequences, FiniteSets, TLC

VARIABLES
    input,      \* the Vec<Validator> handed to ValidatorRegistry::new
    registry,   \* the Result of ValidatorRegistry::new, or not built yet
    call,       \* the last ValidatorRegistry::select call and what it returned
    built,      \* the registry as it was right after construction
    reqs,       \* per in-flight HTTP request: the handler's position and data
    row         \* the CSV record handed to Validator::try_from_record and its result

vars == <<input, registry, call, built, reqs, row>>

(***************************************************************************)
(* Bounds of the model.                                                    *)
(***************************************************************************)
MaxValidators == 2
NumRequests == 2

(***************************************************************************)
(* Strings.                                                                *)
(***************************************************************************)
Upper == <<"A","B","C","D","E","F","G","H","I","J","K","L","M",
           "N","O","P","Q","R","S","T","U","V","W","X","Y","Z">>
Lower == <<"a","b","c","d","e","f","g","h","i","j","k","l","m",
           "n","o","p","q","r","s","t","u","v","w","x","y","z">>

\* char::is_whitespace, on the characters the model draws from
IsWhitespace(c) == c \in {" ", "\t", "\n", "\r"}

RECURSIVE TrimStart(_)
TrimStart(s) ==
    IF s = <<>> THEN s
    ELSE IF IsWhitespace(Head(s)) THEN TrimStart(Tail(s)) ELSE s

RECURSIVE TrimEnd(_)
TrimEnd(s) ==
    IF s = <<>> THEN s
    ELSE IF IsWhitespace(s[Len(s)]) THEN TrimEnd(SubSeq(s, 1, Len(s) - 1)) ELSE s

\* str::trim
trim(s) == TrimEnd(TrimStart(s))

\* u8::to_ascii_lowercase on one character: only 'A'..'Z' change
CharToAsciiLowercase(c) ==
    IF \E i \in 1..26 : Upper[i] = c
    THEN Lower[CHOOSE i \in 1..26 : Upper[i] = c]
    ELSE c

\* str::to_ascii_lowercase
to_ascii_lowercase(s) == [i \in 1..Len(s) |-> CharToAsciiLowercase(s[i])]

normalize_key(value) == to_ascii_lowercase(trim(value))

(***************************************************************************)
(* Option and Result values.                                               *)
(***************************************************************************)
None == [tag |-> "None"]
Some(v) == [tag |-> "Some", value |-> v]

\* the closure of select: a hint that is blank after trimming counts as absent
NonBlankTrimmed(opt) ==
    IF opt.tag = "None" THEN None
    ELSE IF trim(opt.value) = <<>> THEN None ELSE Some(trim(opt.value))

(***************************************************************************)
(* Validator and ValidatorRegistry.                                        *)
(***************************************************************************)
Validator(name, location, rpc_url) ==
    [name |-> name, location |-> location, rpc_url |-> rpc_url]

summary(v) == [name |-> v.name, location |-> v.location]

EmptyIndex == [k \in {} |-> 0]

\* HashMap::insert: the map after the insert
MapInsert(m, key, val) ==
    [k \in (DOMAIN m) \cup {key} |-> IF k = key THEN val ELSE m[k]]

\* index_by_location.entry(key).or_default().push(idx)
LocationPush(m, key, idx) ==
    [k \in (DOMAIN m) \cup {key} |->
        IF k = key
        THEN (IF key \in DOMAIN m THEN Append(m[key], idx) ELSE <<idx>>)
        ELSE m[k]]

RegistryErr(kind, arg) == [tag |-> "Err", kind |-> kind, arg |-> arg]

RegistryOk(validators, byName, byLocation) ==
    [tag |-> "Ok", validators |-> validators,
     index_by_name |-> byName, index_by_location |-> byLocation]

\* the for loop of ValidatorRegistry::new, from 0-based position idx on
RECURSIVE NewLoop(_, _, _, _)
NewLoop(validators, idx, byName, byLocation) ==
    IF idx >= Len(validators)
    THEN RegistryOk(validators, byName, byLocation)
    ELSE LET validator == validators[idx + 1]
             name_key == normalize_key(validator.name)
             location_key == normalize_key(validator.location)
         IN  IF name_key \in DOMAIN byName
             THEN RegistryErr("DuplicateName", validator.name)
             ELSE NewLoop(validators, idx + 1,
                          MapInsert(byName, name_key, idx),
                          LocationPush(byLocation, location_key, idx))

\* the loop of new with the result of index_by_name.insert ignored
RECURSIVE NewLoopIgnoringInsert(_, _, _, _)
NewLoopIgnoringInsert(validators, idx, byName, byLocation) ==
    IF idx >= Len(validators)
    THEN RegistryOk(validators, byName, byLocation)
    ELSE LET validator == validators[idx + 1]
         IN  NewLoopIgnoringInsert(validators, idx + 1,
                 MapInsert(byName, normalize_key(validator.name), idx),
                 LocationPush(byLocation, normalize_key(validator.location), idx))

\* new without the is_empty check
new_without_empty_check(validators) ==
    NewLoop(validators, 0, EmptyIndex, EmptyIndex)

\* new without the duplicate check
new_without_duplicate_check(validators) ==
    IF validators = <<>>
    THEN RegistryErr("Empty", <<>>)
    ELSE NewLoopIgnoringInsert(validators, 0, EmptyIndex, EmptyIndex)

\* ValidatorRegistry::new
new(validators) ==
    IF validators = <<>>
    THEN RegistryErr("Empty", <<>>)
    ELSE NewLoop(validators, 0, EmptyIndex, EmptyIndex)

\* ValidatorRegistry::summaries
summaries(reg) == [i \in 1..Len(reg.validators) |-> summary(reg.validators[i])]

\* ValidatorRegistry::get_by_name
get_by_name(reg, name) ==
    LET key == normalize_key(name)
    IN  IF key \in DOMAIN reg.index_by_name
        THEN Some(reg.validators[reg.index_by_name[key] + 1])
        ELSE None

\* SliceRandom::choose: every element may be drawn, None on an empty slice
choose(slice) ==
    IF slice = <<>> THEN {None} ELSE {Some(slice[i]) : i \in 1..Len(slice)}

\* random_in_location drawing from the whole registry
random_in_location_any(reg, location) ==
    {Some(reg.validators[i]) : i \in 1..Len(reg.validators)}

\* ValidatorRegistry::random_in_location: the set of possible returns
random_in_location(reg, location) ==
    LET key == normalize_key(location)
    IN  IF key \in DOMAIN reg.index_by_location
        THEN {IF o.tag = "None" THEN None ELSE Some(reg.validators[o.value + 1]) :
                o \in choose(reg.index_by_location[key])}
        ELSE {None}

\* ValidatorRegistry::random: the set of possible returns
random(reg) == choose(reg.validators)

SelectOk(v) == [tag |-> "Ok", validator |-> v]
SelectErr(kind, arg) == [tag |-> "Err", kind |-> kind, arg |-> arg]

\* Option::ok_or / ok_or_else
ok_or(opt, kind, arg) ==
    IF opt.tag = "Some" THEN SelectOk(opt.value) ELSE SelectErr(kind, arg)

\* select with the location hint tried before the name hint
select_location_first(reg, name, location) ==
    LET n == NonBlankTrimmed(name)
        l == NonBlankTrimmed(location)
    IN  IF l.tag = "Some"
        THEN {ok_or(o, "UnknownLocation", l.value) : o \in random_in_location(reg, l.value)}
        ELSE IF n.tag = "Some"
        THEN {ok_or(get_by_name(reg, n.value), "UnknownValidator", n.value)}
        ELSE {ok_or(o, "Empty", <<>>) : o \in random(reg)}

\* ValidatorRegistry::select: the set of possible returns
select(reg, name, location) ==
    LET n == NonBlankTrimmed(name)
        l == NonBlankTrimmed(location)
    IN  IF n.tag = "Some"
        THEN {ok_or(get_by_name(reg, n.value), "UnknownValidator", n.value)}
        ELSE IF l.tag = "Some"
        THEN {ok_or(o, "UnknownLocation", l.value) : o \in random_in_location(reg, l.value)}
        ELSE {ok_or(o, "Empty", <<>>) : o \in random(reg)}

\* thiserror Display of SelectionError: the format string and its argument
SelectionErrorToString(e) ==
    [fmt |-> <<CASE e.kind = "UnknownValidator" -> "validator '{0}' not found"
                 [] e.kind = "UnknownLocation" -> "no validator available for location '{0}'"
                 [] OTHER -> "no validators available">>,
     args |-> IF e.kind = "Empty" THEN <<>> ELSE <<e.arg>>]

(***************************************************************************)
(* url::Url, as far as try_from_record uses it: parse, scheme, host, port  *)
(* and set_port.  A Url never stores the default port of its scheme.       *)
(***************************************************************************)
Digits == <<"0","1","2","3","4","5","6","7","8","9">>

IsDigit(c) == \E i \in 1..10 : Digits[i] = c
DigitValue(c) == (CHOOSE i \in 1..10 : Digits[i] = c) - 1
IsAsciiAlphabetic(c) == \E i \in 1..26 : Upper[i] = c \/ Lower[i] = c
\* char::is_ascii_alphanumeric
is_ascii_alphanumeric(c) == IsAsciiAlphabetic(c) \/ IsDigit(c)
IsHexDigit(c) == IsDigit(c) \/ c \in {"a","b","c","d","e","f","A","B","C","D","E","F"}

\* str::contains(char)
contains(s, c) == \E i \in 1..Len(s) : s[i] = c

\* position of the first character of s that is in cs, or Len(s) + 1
RECURSIVE FirstOf(_, _, _)
FirstOf(s, cs, from) ==
    IF from > Len(s) THEN Len(s) + 1
    ELSE IF s[from] \in cs THEN from ELSE FirstOf(s, cs, from + 1)

\* the decimal value of a sequence of digits
RECURSIVE DecimalValue(_)
DecimalValue(ds) ==
    IF ds = <<>> THEN 0
    ELSE 10 * DecimalValue(SubSeq(ds, 1, Len(ds) - 1)) + DigitValue(ds[Len(ds)])

\* the digits of a number, as format!("{}") writes it
RECURSIVE ToDecimal(_)
ToDecimal(n) ==
    IF n < 10 THEN <<Digits[n + 1]>>
    ELSE ToDecimal(n \div 10) \o <<Digits[(n % 10) + 1]>>

HTTP_CHARS == <<"h", "t", "t", "p">>
HTTPS_CHARS == <<"h", "t", "t", "p", "s">>
FTP_CHARS == <<"f", "t", "p">>
WS_CHARS == <<"w", "s">>
VALIDATOR_CHARS == <<"v", "a", "l", "i", "d", "a", "t", "o", "r">>
UNSPECIFIED_CHARS == <<"u", "n", "s", "p", "e", "c", "i", "f", "i", "e", "d">>

SpecialSchemes == {HTTP_CHARS, HTTPS_CHARS, FTP_CHARS, WS_CHARS}

\* url::parser::default_port
default_port(scheme) ==
    CASE scheme = HTTP_CHARS -> Some(80)
      [] scheme = HTTPS_CHARS -> Some(443)
      [] scheme = FTP_CHARS -> Some(21)
      [] scheme = WS_CHARS -> Some(80)
      [] OTHER -> None

UrlErr(kind) == [tag |-> "Err", kind |-> kind]
UrlOk(url) == [tag |-> "Ok", url |-> url]

\* the name the rest of the model gives a scheme
SchemeName(scheme) ==
    CASE scheme = HTTP_CHARS -> "http"
      [] scheme = HTTPS_CHARS -> "https"
      [] scheme = FTP_CHARS -> "ftp"
      [] scheme = WS_CHARS -> "ws"
      [] OTHER -> "other"

SchemeChars(name) ==
    CASE name = "http" -> HTTP_CHARS
      [] name = "https" -> HTTPS_CHARS
      [] name = "ftp" -> FTP_CHARS
      [] name = "ws" -> WS_CHARS
      [] OTHER -> <<>>

\* the port text after the host's colon: none, a number up to 65535, or an error
ParsePort(scheme, text) ==
    IF text = <<>> THEN [tag |-> "Ok", port |-> None]
    ELSE IF \E i \in 1..Len(text) : ~IsDigit(text[i]) THEN UrlErr("InvalidPort")
    ELSE IF Len(text) > 5 \/ DecimalValue(text) > 65535 THEN UrlErr("InvalidPort")
    ELSE IF Some(DecimalValue(text)) = default_port(scheme)
         THEN [tag |-> "Ok", port |-> None]
         ELSE [tag |-> "Ok", port |-> Some(DecimalValue(text))]

\* an IPv6 literal, as far as the model's hosts go: hex digits and colons,
\* at least two colons
IsIpv6(text) ==
    /\ \A i \in 1..Len(text) : IsHexDigit(text[i]) \/ text[i] = ":"
    /\ Cardinality({i \in 1..Len(text) : text[i] = ":"}) >= 2

\* host and port of an authority
ParseAuthority(scheme, auth) ==
    IF auth = <<>> THEN UrlErr("EmptyHost")
    ELSE IF auth[1] = "["
    THEN LET close == FirstOf(auth, {"]"}, 1)
         IN  IF close > Len(auth) \/ ~IsIpv6(SubSeq(auth, 2, close - 1))
             THEN UrlErr("InvalidIpv6Address")
             ELSE IF close < Len(auth) /\ auth[close + 1] # ":"
             THEN UrlErr("InvalidPort")
             ELSE LET p == ParsePort(scheme, SubSeq(auth, close + 2, Len(auth)))
                  IN  IF p.tag = "Err" THEN p
                      ELSE UrlOk([scheme |-> SchemeName(scheme),
                                  host |-> Some(to_ascii_lowercase(SubSeq(auth, 1, close))),
                                  port |-> p.port])
    ELSE LET colon == FirstOf(auth, {":"}, 1)
             host == SubSeq(auth, 1, colon - 1)
         IN  IF host = <<>> THEN UrlErr("EmptyHost")
             ELSE IF \E i \in 1..Len(host) : host[i] \in {" ", "[", "]", "<", ">", "^", "|", "%"}
             THEN UrlErr("InvalidDomainCharacter")
             ELSE LET p == ParsePort(scheme, SubSeq(auth, colon + 1, Len(auth)))
                  IN  IF p.tag = "Err" THEN p
                      ELSE UrlOk([scheme |-> SchemeName(scheme),
                                  host |-> Some(to_ascii_lowercase(host)),
                                  port |-> p.port])

\* the slashes a special scheme lets an authority start with
RECURSIVE SkipSlashes(_)
SkipSlashes(s) ==
    IF s # <<>> /\ Head(s) \in {"/", "\\"} THEN SkipSlashes(Tail(s)) ELSE s

\* Url::parse, on an input without userinfo
UrlParse(text) ==
    LET s == trim(text)
        colon == FirstOf(s, {":"}, 1)
        scheme == to_ascii_lowercase(SubSeq(s, 1, colon - 1))
        rest == SubSeq(s, colon + 1, Len(s))
    IN  IF colon > Len(s) \/ colon = 1 \/ ~IsAsciiAlphabetic(s[1])
           \/ \E i \in 1..(colon - 1) :
                 ~(is_ascii_alphanumeric(s[i]) \/ s[i] \in {"+", "-", "."})
        THEN UrlErr("RelativeUrlWithoutBase")
        ELSE IF scheme \in SpecialSchemes
        THEN LET after == SkipSlashes(rest)
             IN  ParseAuthority(scheme,
                                SubSeq(after, 1, FirstOf(after, {"/", "\\", "?", "#"}, 1) - 1))
        ELSE IF Len(rest) >= 2 /\ rest[1] = "/" /\ rest[2] = "/"
        THEN LET after == SubSeq(rest, 3, Len(rest))
                 auth == SubSeq(after, 1, FirstOf(after, {"/", "?", "#"}, 1) - 1)
             IN  IF auth = <<>>
                 THEN UrlOk([scheme |-> SchemeName(scheme), host |-> None, port |-> None])
                 ELSE ParseAuthority(scheme, auth)
        ELSE UrlOk([scheme |-> SchemeName(scheme), host |-> None, port |-> None])

\* Url::set_port: Err(()) without a host, and the scheme's default port is not kept
set_port(url, port) ==
    IF url.host.tag = "None" \/ url.scheme = "file"
    THEN [tag |-> "Err"]
    ELSE [tag |-> "Ok",
          url |-> [url EXCEPT !.port =
                      IF port = default_port(SchemeChars(url.scheme)) THEN None ELSE port]]

(***************************************************************************)
(* Validator::try_from_record and its helpers.                             *)
(***************************************************************************)
\* default_protocol
default_protocol == HTTP_CHARS

\* default_rpc_port
default_rpc_port == 8899

\* prepare_host_for_url
prepare_host_for_url(host) ==
    LET trimmed == trim(host)
    IN  IF /\ contains(trimmed, ":")
           /\ ~contains(trimmed, ".")
           /\ ~(trimmed # <<>> /\ trimmed[1] = "[")
           /\ ~(trimmed # <<>> /\ trimmed[Len(trimmed)] = "]")
        THEN <<"[">> \o trimmed \o <<"]">>
        ELSE trimmed

\* str::trim_matches('-')
RECURSIVE TrimDashes(_)
TrimDashes(s) ==
    IF s = <<>> THEN s
    ELSE IF Head(s) = "-" THEN TrimDashes(Tail(s))
    ELSE IF s[Len(s)] = "-" THEN TrimDashes(SubSeq(s, 1, Len(s) - 1))
    ELSE s

\* generate_default_name
generate_default_name(location, ordinal) ==
    LET t == trim(location)
        sanitized == [i \in 1..Len(t) |->
                        IF is_ascii_alphanumeric(t[i]) THEN CharToAsciiLowercase(t[i]) ELSE "-"]
        cleaned == TrimDashes(sanitized)
    IN  IF cleaned = <<>>
        THEN VALIDATOR_CHARS \o <<"-">> \o ToDecimal(ordinal)
        ELSE cleaned \o <<"-">> \o ToDecimal(ordinal)

\* Option<String>: the trimmed value when present and not blank
TrimmedNonEmpty(opt) ==
    IF opt.tag = "Some" /\ trim(opt.value) # <<>> THEN Some(trim(opt.value)) ELSE None

InvalidRecord(row_number, fmt, args) ==
    RegistryErr("InvalidRecord", [row |-> row_number, fmt |-> fmt, args |-> args])

\* try_from_record lines 257-291: the url of the row, or the row's error
RecordUrl(record, row_number, protocol) ==
    LET endpoint == TrimmedNonEmpty(record.rpc_endpoint)
        host == TrimmedNonEmpty(record.endpoint_host)
    IN  IF endpoint.tag = "Some"
        THEN LET parsed == UrlParse(endpoint.value)
             IN  IF parsed.tag = "Err"
                 THEN InvalidRecord(row_number, "invalid url '{0}': {1}",
                                    <<endpoint.value, <<parsed.kind>>>>)
                 ELSE parsed
        ELSE IF host.tag = "Some"
        THEN LET candidate == protocol \o <<":", "/", "/">> \o prepare_host_for_url(host.value)
                 parsed == UrlParse(candidate)
             IN  IF parsed.tag = "Err"
                 THEN InvalidRecord(row_number, "invalid host '{0}': {1}",
                                    <<host.value, <<parsed.kind>>>>)
                 ELSE IF parsed.url.port.tag = "None"
                 THEN LET port == IF record.endpoint_port.tag = "Some"
                                  THEN record.endpoint_port.value ELSE default_rpc_port
                          set == set_port(parsed.url, Some(port))
                      IN  IF set.tag = "Err"
                          THEN InvalidRecord(row_number, "invalid port", <<>>)
                          ELSE UrlOk(set.url)
                 ELSE parsed
        ELSE InvalidRecord(row_number, "missing rpc_url or host/ip column", <<>>)

\* CheckedUrl without the final default of the port
CheckedUrlWithoutDefaultPort(url, row_number) ==
    IF url.scheme # "http" /\ url.scheme # "https"
    THEN InvalidRecord(row_number, "unsupported url scheme {0}", <<<<url.scheme>>>>)
    ELSE IF url.host.tag = "None"
    THEN InvalidRecord(row_number, "url is missing host", <<>>)
    ELSE UrlOk(url)

\* try_from_record lines 293-311: scheme, host and port of the url checked
\* (the message quotes the scheme in backquotes)
CheckedUrl(url, row_number) ==
    IF url.scheme # "http" /\ url.scheme # "https"
    THEN InvalidRecord(row_number, "unsupported url scheme {0}", <<<<url.scheme>>>>)
    ELSE IF url.host.tag = "None"
    THEN InvalidRecord(row_number, "url is missing host", <<>>)
    ELSE IF url.port.tag = "None"
    THEN LET set == set_port(url, Some(default_rpc_port))
         IN  IF set.tag = "Err"
             THEN InvalidRecord(row_number, "invalid port", <<>>)
             ELSE UrlOk(set.url)
    ELSE UrlOk(url)

\* Validator::try_from_record
try_from_record(record, row_number, ordinal) ==
    LET location == trim(IF record.location.tag = "Some"
                         THEN record.location.value ELSE UNSPECIFIED_CHARS)
        protocol == to_ascii_lowercase(trim(IF record.protocol.tag = "Some"
                                            THEN record.protocol.value
                                            ELSE default_protocol))
    IN  IF protocol # HTTP_CHARS /\ protocol # HTTPS_CHARS
        THEN InvalidRecord(row_number, "unsupported protocol '{0}'", <<protocol>>)
        ELSE LET built_url == RecordUrl(record, row_number, protocol)
             IN  IF built_url.tag = "Err" THEN built_url
                 ELSE LET checked == CheckedUrl(built_url.url, row_number)
                          given == TrimmedNonEmpty(record.name)
                          name == IF given.tag = "Some" THEN given.value
                                  ELSE generate_default_name(location, ordinal)
                      IN  IF checked.tag = "Err" THEN checked
                          ELSE [tag |-> "Ok",
                                validator |-> Validator(name, location, checked.url)]

(***************************************************************************)
(* Inputs of the registry and selection model.                             *)
(***************************************************************************)
NamePool == { <<"a">>, <<" ", "A", " ">>, <<"b">>, <<"B">>, <<"c">>, <<>> }
LocationPool == { <<"x">>, <<" ", "X">>, <<"y">> }
UrlPool == { [scheme |-> "http", host |-> Some("127.0.0.1"), port |-> Some(8899)] }

ValidatorPool ==
    {Validator(n, l, u) : n \in NamePool, l \in LocationPool, u \in UrlPool}

ValidatorLists == UNION {[1..n -> ValidatorPool] : n \in 0..MaxValidators}

NameHints ==
    {None, Some(<<>>), Some(<<" ">>), Some(<<"a">>), Some(<<" ", "A">>),
     Some(<<"B", " ">>), Some(<<"z", " ">>)}
LocationHints ==
    {None, Some(<<" ">>), Some(<<"x">>), Some(<<"X", " ">>), Some(<<" ", "q">>)}

Unbuilt == [tag |-> "Unbuilt"]
NoCall == [tag |-> "NoCall"]
NoRow == [tag |-> "NoRow"]

(***************************************************************************)
(* Errors of the HTTP layer (errors.rs).                                   *)
(***************************************************************************)
MAX_UPSTREAM_BODY == 33554432

AppError(kind, msg) == [kind |-> kind, msg |-> msg]

\* impl From<SelectionError> for AppError
FromSelectionError(e) == AppError("Selection", SelectionErrorToString(e))

\* AppError::Upstream(format!("node '{}' is unavailable: {}", selected.name(), e))
UpstreamUnavailable(selected, e) ==
    AppError("Upstream",
             [fmt |-> <<"node '{0}' is unavailable: {1}">>, args |-> <<selected.name, <<e>>>>])

\* thiserror Display of AppError: the variant's prefix around the message
AppErrorToString(e) ==
    [fmt |-> <<CASE e.kind = "BadRequest" -> "{0}"
                 [] e.kind = "Selection" -> "validator selection failed: {0}"
                 [] e.kind = "Upstream" -> "upstream request failed: {0}"
                 [] OTHER -> "internal error: {0}">> \o e.msg.fmt,
     args |-> e.msg.args]

\* status_code with every variant answered as an internal error
status_code_all_internal(e) == 500

\* AppError::status_code
status_code(e) ==
    CASE e.kind \in {"BadRequest", "Selection"} -> 400
      [] e.kind = "Upstream" -> 502
      [] OTHER -> 500

Response(status, content_type, body) ==
    [status |-> status, content_type |-> content_type, body |-> body]

\* AppError::error_response
error_response(e) ==
    Response(status_code(e), Some("application/json"),
             [tag |-> "json_error", error |-> AppErrorToString(e)])

(***************************************************************************)
(* The routes (routes.rs).                                                 *)
(***************************************************************************)
Reqs == 1..NumRequests

NotSelected == [tag |-> "NotSelected"]

IdleReq ==
    [pc |-> "idle", method |-> "-", path |-> "-", params |-> <<>>,
     body |-> [tag |-> "empty", len |-> 0],
     selection |-> NotSelected, sent |-> <<>>, upstream |-> None,
     fault |-> "none",     \* what went wrong between proxy and node, if anything
     response |-> None]

\* the values of the query parameters whose key is one of keys, in order
RECURSIVE ParamValues(_, _)
ParamValues(params, keys) ==
    IF params = <<>> THEN <<>>
    ELSE IF Head(params)[1] \in keys
         THEN <<Head(params)[2]>> \o ParamValues(Tail(params), keys)
         ELSE ParamValues(Tail(params), keys)

\* one Option<String> field of ProxyQuery: absent, its value, or a duplicate
QueryField(params, keys) ==
    LET vals == ParamValues(params, keys)
    IN  IF Len(vals) > 1 THEN [tag |-> "Duplicate"]
        ELSE IF Len(vals) = 1 THEN Some(vals[1]) ELSE None

\* ProxyQuery read with the field names only, the serde aliases left out
ProxyQueryWithoutAliases(params) ==
    LET v == QueryField(params, {"validator"})
        l == QueryField(params, {"location"})
    IN  IF v.tag = "Duplicate" \/ l.tag = "Duplicate"
        THEN [tag |-> "Err"]
        ELSE [tag |-> "Ok", validator |-> v, location |-> l]

\* web::Query<ProxyQuery>: validator (alias server), location (alias region)
ProxyQuery(params) ==
    LET v == QueryField(params, {"validator", "server"})
        l == QueryField(params, {"location", "region"})
    IN  IF v.tag = "Duplicate" \/ l.tag = "Duplicate"
        THEN [tag |-> "Err"]
        ELSE [tag |-> "Ok", validator |-> v, location |-> l]

\* the answer of the Query extractor when the query string does not deserialize
QueryPayloadErrorResponse ==
    Response(400, Some("text/plain"), [tag |-> "query_deserialize_error"])

\* Validator::host_header
host_header(v) ==
    IF v.rpc_url.host.tag = "None" THEN None
    ELSE IF v.rpc_url.port.tag = "Some"
         THEN Some(<<v.rpc_url.host.value, ":", v.rpc_url.port.value>>)
         ELSE Some(<<v.rpc_url.host.value>>)

\* client.request_from(url, req.head()), the Host header, send_body(body)
ForwardRequest(selected, method, body) ==
    [url |-> selected.rpc_url, method |-> method,
     host |-> host_header(selected), body |-> body]

\* the AppState registry is reached through a borrow that drops its first record
registry_ref_draining(reg) == [reg EXCEPT !.validators = Tail(@)]

\* AppState::registry: a shared borrow of the Arc'd registry
registry_ref(reg) == reg

\* health_check
health_check(req) ==
    [req EXCEPT !.pc = "done",
                !.response = Some(Response(200, Some("application/json"),
                                           [tag |-> "health", status |-> "ok"]))]

\* list_validators
list_validators(req, reg) ==
    [req EXCEPT !.pc = "done",
                !.response = Some(Response(200, Some("application/json"),
                                           [tag |-> "validators",
                                            validators |-> summaries(reg)]))]

\* index_info
index_info(req) ==
    [req EXCEPT !.pc = "done",
                !.response = Some(Response(200, Some("application/json"),
                                           [tag |-> "index_info"]))]

\* proxy_rpc up to its first await, given what select returned
proxy_rpc(req, result) ==
    IF result.tag = "Err"
    THEN [req EXCEPT !.pc = "done", !.selection = result,
                     !.response = Some(error_response(FromSelectionError(result)))]
    ELSE [req EXCEPT !.pc = "sending", !.selection = result,
                     !.sent = Append(@, ForwardRequest(result.validator, req.method, req.body))]

\* proxy_rpc sending once more, to the same node, after a failed send
proxy_rpc_sent_with_retry(req, outcome) ==
    IF outcome.tag = "Err"
    THEN [req EXCEPT !.sent = Append(@, ForwardRequest(req.selection.validator,
                                                       req.method, req.body))]
    ELSE [req EXCEPT !.pc = "reading", !.upstream = Some(outcome.resp)]

\* proxy_rpc when send_body(body).await resolves
proxy_rpc_sent(req, outcome) ==
    IF outcome.tag = "Err"
    THEN [req EXCEPT !.pc = "done",
                     !.response = Some(error_response(
                         UpstreamUnavailable(req.selection.validator, outcome.error)))]
    ELSE [req EXCEPT !.pc = "reading", !.upstream = Some(outcome.resp)]

\* a limit that cuts the body at the cap
body_limit_truncating(body, limit) ==
    IF body.len > limit
    THEN [tag |-> "Ok", payload |-> [tag |-> body.tag, len |-> limit]]
    ELSE [tag |-> "Ok", payload |-> body]

\* upstream_resp.body().limit(MAX_UPSTREAM_BODY) on a body that arrives whole
body_limit(body, limit) ==
    IF body.len > limit
    THEN [tag |-> "Err", error |-> "PayloadError::Overflow"]
    ELSE [tag |-> "Ok", payload |-> body]

\* the relayed response built with a fixed 200 status
relay_response_ok(upstream, payload) ==
    Response(200, upstream.content_type, [tag |-> "bytes", payload |-> payload])

\* HttpResponse::build(status), the copied Content-Type, .body(payload)
relay_response(upstream, payload) ==
    Response(upstream.status, upstream.content_type,
             [tag |-> "bytes", payload |-> payload])

\* proxy_rpc when upstream_resp.body().limit(..).await resolves
proxy_rpc_read(req, outcome) ==
    IF outcome.tag = "Err"
    THEN [req EXCEPT !.pc = "done",
                     !.response = Some(error_response(
                         UpstreamUnavailable(req.selection.validator, outcome.error)))]
    ELSE [req EXCEPT !.pc = "done",
                     !.response = Some(relay_response(req.upstream.value, outcome.payload))]

(***************************************************************************)
(* The environment of the routes: callers and backend nodes.               *)
(***************************************************************************)
GetVersionBody == [tag |-> "getVersion", len |-> 58]
EmptyBody == [tag |-> "empty", len |-> 0]

\* what awc reports when the send fails: no connection, or the client timeout
SendErrors == {"SendRequestError::Connect", "SendRequestError::Timeout"}

\* what awc reports when the body read fails: a cut stream, or the client timeout
ReadErrors == {"PayloadError::Incomplete", "PayloadError::Io(TimedOut)"}

\* the bodies a backend node may answer an outbound request with
UpstreamBodies(outbound) ==
    {outbound.body,
     [tag |-> "block", len |-> MAX_UPSTREAM_BODY],
     [tag |-> "block", len |-> MAX_UPSTREAM_BODY + 1]}

UpstreamHeads ==
    {[status |-> 200, content_type |-> Some("application/json")],
     [status |-> 500, content_type |-> None]}

\* the ways send_body(..).await may resolve
SendOutcomes(outbound, errors, heads, bodies) ==
    {[tag |-> "Err", error |-> e] : e \in errors}
    \cup {[tag |-> "Ok",
           resp |-> [status |-> h.status, content_type |-> h.content_type, body |-> b]] :
            h \in heads, b \in bodies}

\* the ways the upstream body may reach the proxy: whole, or cut by an error
StreamOutcomes(upstream, errors) ==
    {[tag |-> "Ok", body |-> upstream.body]}
    \cup {[tag |-> "Err", error |-> e] : e \in errors}

Node1 == Validator(<<"a">>, <<"x">>,
                   [scheme |-> "http", host |-> Some("10.0.0.1"), port |-> Some(8899)])
Node2 == Validator(<<"B">>, <<" ", "X">>,
                   [scheme |-> "https", host |-> Some("rpc.example"), port |-> None])
Node3 == Validator(<<"c">>, <<"y">>,
                   [scheme |-> "http", host |-> Some("10.0.0.3"), port |-> Some(8080)])

\* the validator lists the server is started with
ServerInputs == { <<Node1, Node2>>, <<Node3, Node1>> }

\* query strings of the callers, as key/value pairs
ParamsPool ==
    { <<>>,
      << <<"server", <<" ", "A">>>> >>,
      << <<"validator", <<"b">>>>, <<"region", <<"y">>>> >>,
      << <<"validator", <<"z">>>> >>,
      << <<"region", <<"X">>>> >>,
      << <<"validator", <<" ">>>>, <<"location", <<"q">>>> >>,
      << <<"validator", <<"a">>>>, <<"server", <<"b">>>> >> }

BodyPool == {GetVersionBody, EmptyBody}

SmallParamsPool ==
    { <<>>, << <<"server", <<" ", "A">>>> >>, << <<"location", <<"q">>>> >> }

SmallBodyPool == {GetVersionBody}

(***************************************************************************)
(* The registry and selection model: a caller builds a registry from a     *)
(* list of validators and then calls select on it.                         *)
(***************************************************************************)
Init ==
    /\ input \in ValidatorLists
    /\ registry = Unbuilt
    /\ built = Unbuilt
    /\ call = NoCall
    /\ row = NoRow
    /\ reqs = [r \in Reqs |-> IdleReq]

\* ValidatorRegistry::new(input)
Construct ==
    /\ registry.tag = "Unbuilt"
    /\ registry' = new(input)
    /\ built' = registry'
    /\ UNCHANGED <<row, input, call, reqs>>

\* registry.select(name, location), through a shared borrow
Select ==
    /\ registry.tag = "Ok"
    /\ \E name \in NameHints, location \in LocationHints :
         \E result \in select(registry_ref(registry), name, location) :
            call' = [tag |-> "Call", name |-> name, location |-> location,
                     result |-> result]
    /\ UNCHANGED <<row, input, registry, built, reqs>>

Next == Construct \/ Select

Spec == Init /\ [][Next]_vars

(***************************************************************************)
(* The server: main builds the registry once, then the routes serve        *)
(* requests.  env names the sets the callers' and the nodes' choices are   *)
(* drawn from.                                                             *)
(***************************************************************************)
FullEnv ==
    [params |-> ParamsPool, bodies |-> BodyPool, sendErrors |-> SendErrors,
     readErrors |-> ReadErrors, heads |-> UpstreamHeads]

SmallEnv ==
    [params |-> SmallParamsPool, bodies |-> SmallBodyPool,
     sendErrors |-> {"SendRequestError::Connect"},
     readErrors |-> {"PayloadError::Incomplete"},
     heads |-> {[status |-> 200, content_type |-> Some("application/json")]}]

\* main: from_csv(..).map_err(..)? leaves no server without a registry
InitServer ==
    /\ input \in ServerInputs
    /\ registry = new(input)
    /\ registry.tag = "Ok"
    /\ built = registry
    /\ call = NoCall
    /\ row = NoRow
    /\ reqs = [r \in Reqs |-> IdleReq]

Arrived(method, path, params, body) ==
    [IdleReq EXCEPT !.method = method, !.path = path, !.params = params, !.body = body]

\* GET /health
HealthCheck(r) ==
    /\ reqs[r].pc = "idle"
    /\ reqs' = [reqs EXCEPT ![r] = health_check(Arrived("GET", "/health", <<>>, EmptyBody))]
    /\ UNCHANGED <<row, input, registry, built, call>>

\* GET /validators
ListValidators(r) ==
    /\ reqs[r].pc = "idle"
    /\ reqs' = [reqs EXCEPT ![r] =
                    list_validators(Arrived("GET", "/validators", <<>>, EmptyBody),
                                    registry_ref(registry))]
    /\ registry' = registry_ref(registry)
    /\ UNCHANGED <<row, input, built, call>>

\* GET /
IndexInfo(r, env) ==
    /\ reqs[r].pc = "idle"
    /\ \E params \in env.params :
         reqs' = [reqs EXCEPT ![r] = index_info(Arrived("GET", "/", params, EmptyBody))]
    /\ UNCHANGED <<row, input, registry, built, call>>

\* POST /: the Query extractor, select, and the outbound request put under way
ProxyRpc(r, env) ==
    /\ reqs[r].pc = "idle"
    /\ \E params \in env.params, body \in env.bodies :
         LET req == Arrived("POST", "/", params, body)
             query == ProxyQuery(params)
         IN  IF query.tag = "Err"
             THEN reqs' = [reqs EXCEPT ![r] =
                             [req EXCEPT !.pc = "done",
                                         !.response = Some(QueryPayloadErrorResponse)]]
             ELSE \E result \in select(registry_ref(registry),
                                       query.validator, query.location) :
                     reqs' = [reqs EXCEPT ![r] = proxy_rpc(req, result)]
    /\ registry' = registry_ref(registry)
    /\ UNCHANGED <<row, input, built, call>>

\* forward_req.send_body(body).await resolves
SendResolved(r, env) ==
    /\ reqs[r].pc = "sending"
    /\ LET outbound == reqs[r].sent[Len(reqs[r].sent)]
       IN  \E outcome \in SendOutcomes(outbound, env.sendErrors, env.heads,
                                       UpstreamBodies(outbound)) :
              reqs' = [reqs EXCEPT ![r] =
                          [proxy_rpc_sent(reqs[r], outcome) EXCEPT
                              !.fault = IF outcome.tag = "Err" THEN outcome.error ELSE @]]
    /\ UNCHANGED <<row, input, registry, built, call>>

\* upstream_resp.body().limit(MAX_UPSTREAM_BODY).await resolves
BodyResolved(r, env) ==
    /\ reqs[r].pc = "reading"
    /\ \E stream \in StreamOutcomes(reqs[r].upstream.value, env.readErrors) :
          LET outcome == IF stream.tag = "Ok"
                         THEN body_limit(stream.body, MAX_UPSTREAM_BODY)
                         ELSE stream
          IN  reqs' = [reqs EXCEPT ![r] =
                          [proxy_rpc_read(reqs[r], outcome) EXCEPT
                              !.fault = IF stream.tag = "Err" THEN stream.error
                                        ELSE IF stream.body.len > MAX_UPSTREAM_BODY
                                        THEN "oversize" ELSE @]]
    /\ UNCHANGED <<row, input, registry, built, call>>

\* the response has gone to the caller; the slot takes the next request
Complete(r) ==
    /\ reqs[r].pc = "done"
    /\ reqs' = [reqs EXCEPT ![r] = IdleReq]
    /\ UNCHANGED <<row, input, registry, built, call>>

Serve(r, env) ==
    \/ HealthCheck(r)
    \/ ListValidators(r)
    \/ IndexInfo(r, env)
    \/ ProxyRpc(r, env)
    \/ SendResolved(r, env)
    \/ BodyResolved(r, env)
    \/ Complete(r)

\* one request at a time, with the full range of callers and nodes
NextProxy == Serve(1, FullEnv)

SpecProxy == InitServer /\ [][NextProxy]_vars

\* NumRequests requests in flight at once
NextConcurrent == \E r \in Reqs : Serve(r, SmallEnv)

SpecConcurrent == InitServer /\ [][NextConcurrent]_vars

(***************************************************************************)
(* The loader: from_reader hands each CSV record to try_from_record, keeps *)
(* the accepted validators and ends with ValidatorRegistry::new.           *)
(***************************************************************************)
EndpointPool ==
    {None, Some(<<" ">>),
     Some(<<"h", "t", "t", "p", ":", "/", "/", "n", "1">>),
     Some(<<"h", "t", "t", "p", ":", "/", "/", "n", "1", ":", "8", "0">>),
     Some(<<"h", "t", "t", "p", "s", ":", "/", "/", "n", "1", ":", "4", "4", "3", "/">>),
     Some(<<"H", "T", "T", "P", "S", ":", "/", "/", "N", "1", ":", "8", "4", "4", "3">>),
     Some(<<"f", "t", "p", ":", "/", "/", "n", "1">>),
     Some(<<"n", "1">>),
     Some(<<"m", "a", "i", "l", "t", "o", ":", "a">>),
     Some(<<"h", "t", "t", "p", ":", "/", "/", "n", "1", ":", "x">>)}

HostPool ==
    {None, Some(<<" ", "n", "1", " ">>),
     Some(<<"n", "1", ".", "i", "o">>),
     Some(<<"1", ".", "2", ".", "3", ".", "4", ":", "8", "0">>),
     Some(<<"n", "1", ":", "8", "0">>),
     Some(<<":", ":", "1">>),
     Some(<<"[", ":", ":", "1", "]">>),
     Some(<<"n", " ", "1">>)}

PortPool == {None, Some(80), Some(443), Some(9000)}

ProtocolPool ==
    {None, Some(<<" ", "H", "T", "T", "P", "S">>),
     Some(<<"h", "t", "t", "p">>),
     Some(<<"f", "t", "p">>)}

RecordNamePool == {None, Some(<<"a">>)}

RecordLocationPool == {None, Some(<<"F", "r", " ", "1">>)}

\* ValidatorCsvRecord, after csv and serde have read the row
RecordPool ==
    [name : RecordNamePool, rpc_endpoint : EndpointPool, endpoint_host : HostPool,
     endpoint_port : PortPool, protocol : ProtocolPool, location : RecordLocationPool]

\* the validators accepted from the rows before the one at hand
AcceptedBefore(n) ==
    [i \in 1..n |->
        Validator(<<"p">> \o ToDecimal(i), <<"x">>,
                  [scheme |-> "http", host |-> Some(<<"p">>), port |-> Some(8899)])]

Pending == [tag |-> "Pending"]

InitLoader ==
    /\ \E n \in 0..(MaxValidators - 1) : input = AcceptedBefore(n)
    /\ \E record \in RecordPool :
          row = [tag |-> "Row", record |-> record, result |-> Pending]
    /\ registry = Unbuilt
    /\ built = Unbuilt
    /\ call = NoCall
    /\ reqs = [r \in Reqs |-> IdleReq]

\* from_reader, one turn of its loop: row_idx + 2, validators.len() + 1, push or ?
ReadRecord ==
    /\ row.tag = "Row"
    /\ row.result.tag = "Pending"
    /\ LET result == try_from_record(row.record, Len(input) + 2, Len(input) + 1)
       IN  /\ row' = [row EXCEPT !.result = result]
           /\ IF result.tag = "Ok"
              THEN input' = Append(input, result.validator) /\ UNCHANGED registry
              ELSE registry' = result /\ UNCHANGED input
    /\ UNCHANGED <<built, call, reqs>>

\* from_reader, after the last row: Self::new(validators)
EndOfRecords ==
    /\ row.tag = "Row"
    /\ row.result.tag = "Ok"
    /\ registry.tag = "Unbuilt"
    /\ registry' = new(input)
    /\ built' = registry'
    /\ UNCHANGED <<row, input, call, reqs>>

NextLoader == ReadRecord \/ EndOfRecords

SpecLoader == InitLoader /\ [][NextLoader]_vars

(***************************************************************************)
(* Normalization as the specification words it: surrounding whitespace     *)
(* removed, then lower-cased.                                              *)
(***************************************************************************)
NonSpace(s) == {i \in 1..Len(s) : s[i] \notin {" ", "\t", "\n", "\r"}}

Trimmed(s) ==
    IF NonSpace(s) = {} THEN <<>>
    ELSE SubSeq(s, CHOOSE i \in NonSpace(s) : \A j \in NonSpace(s) : i <= j,
                   CHOOSE i \in NonSpace(s) : \A j \in NonSpace(s) : j <= i)

LowerCased(s) ==
    [i \in 1..Len(s) |->
        IF \E k \in 1..26 : Upper[k] = s[i]
        THEN Lower[CHOOSE k \in 1..26 : Upper[k] = s[i]]
        ELSE s[i]]

Normalized(s) == LowerCased(Trimmed(s))

Blank(opt) == opt.tag = "None" \/ Trimmed(opt.value) = <<>>

\* positions (1-based) of the records of vs whose normalized name is that of x
NamedLike(vs, x) == {i \in 1..Len(vs) : Normalized(vs[i].name) = Normalized(x)}

\* positions (1-based) of the records of vs whose normalized location is that of y
LocatedLike(vs, y) == {i \in 1..Len(vs) : Normalized(vs[i].location) = Normalized(y)}

NamesDistinct(vs) ==
    \A i, j \in 1..Len(vs) : i # j => Normalized(vs[i].name) # Normalized(vs[j].name)

\* positions of the records whose normalized name repeats that of an earlier record
Colliding(vs) ==
    {j \in 1..Len(vs) : \E i \in 1..(j - 1) : Normalized(vs[i].name) = Normalized(vs[j].name)}

(***************************************************************************)
(* C1: a select with a non-blank name hint X returns, whatever the         *)
(* location hint, the one node whose normalized name equals normalized X;  *)
(* with no such node it fails with UnknownValidator carrying X (trimmed),  *)
(* and never falls back to the location hint or to a random node.          *)
(***************************************************************************)
C1_SelectByName ==
    (call.tag = "Call" /\ ~Blank(call.name)) =>
        LET hits == NamedLike(registry.validators, call.name.value)
        IN  IF hits = {}
            THEN call.result = SelectErr("UnknownValidator", Trimmed(call.name.value))
            ELSE /\ Cardinality(hits) = 1
                 /\ \A i \in hits : call.result = SelectOk(registry.validators[i])

\* a name hint in another case and padded, with a location hint of another
\* location than the node's, returned the node of that name
C1_Witness ==
    /\ call.tag = "Call"
    /\ call.name = Some(<<"B", " ">>)
    /\ call.location = Some(<<"x">>)
    /\ call.result.tag = "Ok"
    /\ call.result.validator.name = <<"b">>
    /\ call.result.validator.location = <<"y">>
    /\ Len(registry.validators) = 2

(***************************************************************************)
(* C2: a select with a blank or absent name hint and a non-blank location  *)
(* hint Y returns a node of the registry whose normalized location equals  *)
(* normalized Y, every such node is a possible return, and with no such    *)
(* node it fails with UnknownLocation carrying Y (trimmed).                *)
(***************************************************************************)
C2_SelectByLocation ==
    (call.tag = "Call" /\ Blank(call.name) /\ ~Blank(call.location)) =>
        LET group == LocatedLike(registry.validators, call.location.value)
        IN  IF group = {}
            THEN call.result = SelectErr("UnknownLocation", Trimmed(call.location.value))
            ELSE /\ \E i \in group : call.result = SelectOk(registry.validators[i])
                 /\ \A i \in group :
                        SelectOk(registry.validators[i])
                            \in select(registry, call.name, call.location)

\* two nodes share the location asked for, a third position is elsewhere or
\* absent, and the call returned the second of the two
C2_Witness ==
    /\ call.tag = "Call"
    /\ call.name = Some(<<" ">>)
    /\ call.location = Some(<<"X", " ">>)
    /\ Len(registry.validators) = 2
    /\ LocatedLike(registry.validators, call.location.value) = {1, 2}
    /\ registry.validators[1].location # registry.validators[2].location
    /\ call.result = SelectOk(registry.validators[2])

(***************************************************************************)
(* C3: on a constructed registry a select with both hints blank or absent  *)
(* never fails and returns a member of the registry.                       *)
(***************************************************************************)
C3_SelectRandomNeverFails ==
    /\ registry.tag = "Ok" => Len(registry.validators) >= 1
    /\ (call.tag = "Call" /\ Blank(call.name) /\ Blank(call.location)) =>
          /\ call.result.tag = "Ok"
          /\ \E i \in 1..Len(registry.validators) :
                call.result.validator = registry.validators[i]

\* both hints blank, and the call returned the second node of two
C3_Witness ==
    /\ call.tag = "Call"
    /\ call.name = Some(<<>>)
    /\ call.location = Some(<<" ">>)
    /\ Len(registry.validators) = 2
    /\ call.result = SelectOk(registry.validators[2])

(***************************************************************************)
(* C4: construction succeeds exactly when the list is non-empty and the    *)
(* normalized names are pairwise distinct; an empty list gives Empty, a    *)
(* collision gives DuplicateName with the display name of the first record *)
(* that repeats an earlier one, a failure carries no registry, and a       *)
(* constructed registry's name index maps each record's normalized name to *)
(* the record's own position.                                              *)
(***************************************************************************)
C4_Construction ==
    registry.tag # "Unbuilt" =>
        /\ registry.tag = "Ok" <=> (input # <<>> /\ NamesDistinct(input))
        /\ input = <<>> => registry = RegistryErr("Empty", <<>>)
        /\ (input # <<>> /\ ~NamesDistinct(input)) =>
             LET first == CHOOSE j \in Colliding(input) : \A k \in Colliding(input) : j <= k
             IN  registry = RegistryErr("DuplicateName", input[first].name)
        /\ registry.tag = "Err" => DOMAIN registry = {"tag", "kind", "arg"}
        /\ registry.tag = "Ok" =>
             /\ registry.validators = input
             /\ DOMAIN registry.index_by_name =
                    {Normalized(input[i].name) : i \in 1..Len(input)}
             /\ \A i \in 1..Len(input) :
                    registry.index_by_name[Normalized(input[i].name)] = i - 1

\* two records whose names differ only in case and padding were refused
C4_Witness ==
    /\ Len(input) = 2
    /\ input[1].name = <<"a">>
    /\ input[2].name = <<" ", "A", " ">>
    /\ registry = RegistryErr("DuplicateName", <<" ", "A", " ">>)

(***************************************************************************)
(* The hints a query string carries, read off the parameters directly.     *)
(***************************************************************************)
ParamsWithKey(params, keys) == {i \in 1..Len(params) : params[i][1] \in keys}

HintOf(params, keys) ==
    IF ParamsWithKey(params, keys) = {} THEN None
    ELSE Some(params[CHOOSE i \in ParamsWithKey(params, keys) : TRUE][2])

NameHintOf(params) == HintOf(params, {"validator", "server"})
LocationHintOf(params) == HintOf(params, {"location", "region"})

QueryReadable(params) ==
    /\ Cardinality(ParamsWithKey(params, {"validator", "server"})) <= 1
    /\ Cardinality(ParamsWithKey(params, {"location", "region"})) <= 1

\* the nodes a selection with these hints may return
Eligible(vs, name, location) ==
    IF ~Blank(name) THEN {vs[i] : i \in NamedLike(vs, name.value)}
    ELSE IF ~Blank(location) THEN {vs[i] : i \in LocatedLike(vs, location.value)}
    ELSE {vs[i] : i \in 1..Len(vs)}

EligibleFor(req) ==
    Eligible(registry.validators, NameHintOf(req.params), LocationHintOf(req.params))

Done(r) == reqs[r].pc = "done"

UpstreamFailure(req) ==
    /\ req.response.tag = "Some"
    /\ req.response.value.status = 502
    /\ req.response.value.body.tag = "json_error"
    /\ req.response.value.body.error.fmt =
          <<"upstream request failed: {0}", "node '{0}' is unavailable: {1}">>
    /\ req.response.value.body.error.args =
          <<req.selection.validator.name,
            <<IF req.fault = "oversize" THEN "PayloadError::Overflow" ELSE req.fault>>>>

Relayed(req) ==
    /\ req.response.tag = "Some"
    /\ req.upstream.tag = "Some"
    /\ req.response.value.status = req.upstream.value.status
    /\ req.response.value.body = [tag |-> "bytes", payload |-> req.upstream.value.body]

(***************************************************************************)
(* C5: once the registry is constructed, no interleaving of concurrent     *)
(* requests changes it: records, name index and location index stay as     *)
(* they were right after construction.                                     *)
(***************************************************************************)
C5_RegistryFrozen ==
    /\ registry = built
    /\ registry.tag = "Ok"
    /\ registry.validators = input
    /\ registry.index_by_name = new(input).index_by_name
    /\ registry.index_by_location = new(input).index_by_location

\* two requests have run side by side: one ended in a forwarding failure
\* while the other is still reading its upstream body
C5_Witness ==
    /\ reqs[1].pc = "done"
    /\ reqs[1].fault # "none"
    /\ reqs[2].pc = "reading"
    /\ reqs[1].selection.validator # reqs[2].selection.validator
    /\ registry = built

(***************************************************************************)
(* C6 as stated: a GET to / like a POST to / selects a node from its query *)
(* parameters and, when selection succeeds, is forwarded to that node.     *)
(***************************************************************************)
C6_Original ==
    \A r \in Reqs :
        (/\ Done(r)
         /\ reqs[r].path = "/"
         /\ reqs[r].method \in {"GET", "POST"}
         /\ QueryReadable(reqs[r].params)
         /\ EligibleFor(reqs[r]) # {}) =>
            /\ reqs[r].selection.tag = "Ok"
            /\ Len(reqs[r].sent) = 1

(***************************************************************************)
(* C6 amended: a POST to / whose query string deserializes selects a node  *)
(* from validator/server and location/region and, when selection succeeds, *)
(* is forwarded to that node; when forwarding succeeds too the caller gets *)
(* the relayed upstream response with the upstream's status code.  A GET   *)
(* to / selects nothing and forwards nothing: it is answered 200 with the  *)
(* static service description.                                             *)
(***************************************************************************)
C6_RootRoutes ==
    \A r \in Reqs :
        /\ (reqs[r].path = "/" /\ reqs[r].method = "POST"
              /\ reqs[r].pc # "idle" /\ QueryReadable(reqs[r].params)) =>
                /\ reqs[r].selection.tag = "Ok" <=> EligibleFor(reqs[r]) # {}
                /\ reqs[r].selection.tag = "Ok" =>
                     /\ reqs[r].selection.validator \in EligibleFor(reqs[r])
                     /\ Len(reqs[r].sent) = 1
                     /\ reqs[r].sent[1].url = reqs[r].selection.validator.rpc_url
                     /\ reqs[r].sent[1].method = "POST"
                     /\ (Done(r) /\ reqs[r].fault = "none") => Relayed(reqs[r])
        /\ (reqs[r].path = "/" /\ reqs[r].method = "GET" /\ reqs[r].pc # "idle") =>
                /\ Done(r)
                /\ reqs[r].selection = NotSelected
                /\ reqs[r].sent = <<>>
                /\ reqs[r].response =
                      Some(Response(200, Some("application/json"), [tag |-> "index_info"]))

\* a POST naming its node through the server alias, in another case, was
\* forwarded to that node and answered with the node's own 500
C6_Witness ==
    /\ Done(1)
    /\ reqs[1].method = "POST"
    /\ reqs[1].params = << <<"server", <<" ", "A">>>> >>
    /\ reqs[1].selection = SelectOk(Node1)
    /\ input = <<Node3, Node1>>
    /\ Relayed(reqs[1])
    /\ reqs[1].response.value.status = 500

(***************************************************************************)
(* C7: every forwarding failure of a request whose selection succeeded (a  *)
(* transport error or timeout while sending, a read error, or an upstream  *)
(* body above 32 MiB) ends the request as an Upstream failure answered 502 *)
(* whose message carries the selected node's name; an oversize body never  *)
(* yields a success carrying a truncated body.                             *)
(***************************************************************************)
C7_ForwardingFailure ==
    \A r \in Reqs :
        /\ reqs[r].fault # "none" => (Done(r) /\ UpstreamFailure(reqs[r]))
        /\ (Done(r) /\ reqs[r].upstream.tag = "Some"
              /\ reqs[r].upstream.value.body.len > MAX_UPSTREAM_BODY) =>
                /\ reqs[r].fault # "none"
                /\ reqs[r].response.value.body.tag # "bytes"

\* the node answered 200 with one byte more than the cap, and the caller got 502
C7_Witness ==
    /\ Done(1)
    /\ reqs[1].upstream.tag = "Some"
    /\ reqs[1].upstream.value.status = 200
    /\ reqs[1].upstream.value.body.len = MAX_UPSTREAM_BODY + 1
    /\ reqs[1].fault = "oversize"
    /\ reqs[1].response.value.status = 502
    /\ reqs[1].selection.validator.name = <<"B">>

(***************************************************************************)
(* C8: a request whose selection fails (unknown name, or a location no     *)
(* node has) is answered 400 with a body {"error": message} that names the *)
(* kind of failure, and no outbound request is sent for it.                *)
(***************************************************************************)
C8_SelectionFailure ==
    \A r \in Reqs :
        (/\ reqs[r].path = "/" /\ reqs[r].method = "POST" /\ reqs[r].pc # "idle"
         /\ QueryReadable(reqs[r].params)
         /\ EligibleFor(reqs[r]) = {}) =>
            LET name == NameHintOf(reqs[r].params)
                location == LocationHintOf(reqs[r].params)
            IN  /\ Done(r)
                /\ reqs[r].sent = <<>>
                /\ reqs[r].upstream = None
                /\ reqs[r].response.value.status = 400
                /\ reqs[r].response.value.body.tag = "json_error"
                /\ reqs[r].response.value.body.error =
                     IF ~Blank(name)
                     THEN [fmt |-> <<"validator selection failed: {0}",
                                     "validator '{0}' not found">>,
                           args |-> <<Trimmed(name.value)>>]
                     ELSE [fmt |-> <<"validator selection failed: {0}",
                                     "no validator available for location '{0}'">>,
                           args |-> <<Trimmed(location.value)>>]

\* a blank validator parameter and a location no node has: 400, nothing sent
C8_Witness ==
    /\ Done(1)
    /\ reqs[1].params = << <<"validator", <<" ">>>>, <<"location", <<"q">>>> >>
    /\ reqs[1].selection = SelectErr("UnknownLocation", <<"q">>)
    /\ reqs[1].response.value.status = 400
    /\ reqs[1].sent = <<>>

(***************************************************************************)
(* C9: a forwarded request has at most one outbound request, sent to the   *)
(* selected node; after a transport failure or a timeout nothing is sent   *)
(* again; the request ends with exactly one response, the relayed upstream *)
(* response or an Upstream failure; an expired timeout always surfaces as  *)
(* an Upstream failure.                                                    *)
(***************************************************************************)
C9_NoRetry ==
    \A r \in Reqs :
        /\ Len(reqs[r].sent) <= 1
        /\ reqs[r].sent # <<>> =>
             /\ reqs[r].selection.tag = "Ok"
             /\ reqs[r].sent[1].url = reqs[r].selection.validator.rpc_url
        /\ reqs[r].response.tag = "Some" <=> Done(r)
        /\ (Done(r) /\ reqs[r].sent # <<>>) =>
             (Relayed(reqs[r]) \/ UpstreamFailure(reqs[r]))
        /\ reqs[r].fault \in {"SendRequestError::Timeout", "PayloadError::Io(TimedOut)"} =>
             (Done(r) /\ UpstreamFailure(reqs[r]))

\* the send timed out: one outbound request, and the caller has its 502
C9_Witness ==
    /\ Done(1)
    /\ reqs[1].fault = "SendRequestError::Timeout"
    /\ Len(reqs[1].sent) = 1
    /\ Len(registry.validators) = 2
    /\ UpstreamFailure(reqs[1])

(***************************************************************************)
(* C10: when selection, the send and the capped body read all succeed, the *)
(* caller's response has exactly the upstream's status (2xx or not) and    *)
(* body, and the upstream received exactly the inbound body; an upstream   *)
(* that echoes its request body hands the caller its own body back.        *)
(***************************************************************************)
C10_Fidelity ==
    \A r \in Reqs :
        /\ reqs[r].sent # <<>> => reqs[r].sent[1].body = reqs[r].body
        /\ (Done(r) /\ reqs[r].upstream.tag = "Some" /\ reqs[r].fault = "none") =>
             /\ reqs[r].response.value.status = reqs[r].upstream.value.status
             /\ reqs[r].response.value.body =
                   [tag |-> "bytes", payload |-> reqs[r].upstream.value.body]
             /\ reqs[r].upstream.value.body = reqs[r].sent[1].body =>
                   reqs[r].response.value.body.payload = reqs[r].body

\* an echoing node answered 500, and the caller got 500 with its own body
C10_Witness ==
    /\ Done(1)
    /\ reqs[1].body = GetVersionBody
    /\ reqs[1].fault = "none"
    /\ reqs[1].upstream = Some([status |-> 500, content_type |-> None,
                                body |-> GetVersionBody])
    /\ reqs[1].response.value.status = 500
    /\ reqs[1].response.value.body.payload = GetVersionBody

(***************************************************************************)
(* C11: every row the Endpoint Builder accepts, through the explicit URL   *)
(* or through host/ip/address, yields a node whose endpoint has scheme     *)
(* http or https, a host and an explicit port; every other row is refused  *)
(* with an error that names the row, and yields no node.                   *)
(***************************************************************************)
C11_AcceptedEndpoint ==
    (row.tag = "Row" /\ row.result.tag # "Pending") =>
        /\ row.result.tag = "Ok" =>
             /\ row.result.validator.rpc_url.scheme \in {"http", "https"}
             /\ row.result.validator.rpc_url.host.tag = "Some"
             /\ row.result.validator.rpc_url.port.tag = "Some"
             /\ input # <<>>
             /\ input[Len(input)] = row.result.validator
        /\ row.result.tag # "Ok" =>
             /\ row.result.tag = "Err"
             /\ row.result.kind = "InvalidRecord"
             /\ row.result.arg.row = Len(input) + 2
             /\ registry = row.result
             /\ \A i \in 1..Len(input) : input[i] = AcceptedBefore(Len(input))[i]

\* an explicit https URL naming port 443 was accepted on the third row
C11_Witness ==
    /\ row.tag = "Row"
    /\ row.record.rpc_endpoint = Some(<<"h", "t", "t", "p", "s", ":", "/", "/", "n", "1", ":", "4", "4", "3", "/">>)
    /\ row.result.tag = "Ok"
    /\ row.result.validator.rpc_url.scheme = "https"
    /\ row.result.validator.rpc_url.port.tag = "Some"
    /\ Len(input) = 2

(***************************************************************************)
(* C12: an accepted row without an explicit URL whose host/ip/address      *)
(* carries no port gets the port of its port column, whatever that port    *)
(* and for both protocols, and 8899 only when the row supplies no port.    *)
(***************************************************************************)
HostCarriesNoPort(host) ==
    \/ ~contains(Trimmed(host), ":")
    \/ Trimmed(host)[Len(Trimmed(host))] = "]"
    \/ \A i \in 1..Len(Trimmed(host)) : IsHexDigit(Trimmed(host)[i]) \/ Trimmed(host)[i] = ":"

C12_SuppliedPortKept ==
    (/\ row.tag = "Row"
     /\ row.result.tag = "Ok"
     /\ Blank(row.record.rpc_endpoint)
     /\ ~Blank(row.record.endpoint_host)
     /\ HostCarriesNoPort(row.record.endpoint_host.value)) =>
        row.result.validator.rpc_url.port =
            IF row.record.endpoint_port.tag = "Some"
            THEN row.record.endpoint_port
            ELSE Some(8899)

====
